---- MODULE Spec2Model ----
(***************************************************************************)
(* Model of gtfs-gridforge (src/src/lib.rs): the letter-grid network       *)
(* (TransitGrid: stops map, routes list), its two registration calls       *)
(* add_stop and add_route, and the feed expansion generate_gtfs.           *)
(*                                                                         *)
(* Text is a sequence of one-character strings, so that suffix tests,      *)
(* substring containment and number formatting are computed as the code    *)
(* computes them.  A time of day (chrono::NaiveTime) is the number of      *)
(* seconds since midnight, 0 .. SecsPerDay-1; adding a Duration wraps      *)
(* around midnight, as NaiveTime's Add does.  The network uses the default *)
(* GridConfig (TransitGrid::new(None)).                                    *)
(***************************************************************************)
EXTENDS Integers, Sequences, FiniteSets, TLC

VARIABLES stops, routes, feed, ret

vars == <<stops, routes, feed, ret>>

(***************************************************************************)
(* Bound of the model: the length the routes list may grow to.             *)
(***************************************************************************)
MaxRoutes == 2

\* More passes than any trip loop of the model makes before it ends.
LoopFuel == 512

(***************************************************************************)
(* Text helpers (str::ends_with, str::strip_suffix, str::contains,         *)
(* integer Display).                                                       *)
(***************************************************************************)
None == <<>>
Some(x) == <<x>>

UPPER == <<"A","B","C","D","E","F","G","H","I","J","K","L","M","N","O","P","Q","R","S","T","U","V","W","X","Y","Z">>
LOWER == <<"a","b","c","d","e","f","g","h","i","j","k","l","m","n","o","p","q","r","s","t","u","v","w","x","y","z">>
DIGITS == <<"0","1","2","3","4","5","6","7","8","9">>

Range(s) == {s[i] : i \in 1..Len(s)}

\* char::is_uppercase / char::is_lowercase are Unicode tests: they also hold
\* of letters outside the Latin ranges A..Z and a..z.
is_uppercase(ch) == ch \in Range(UPPER) \cup {"É"}
is_lowercase(ch) == ch \in Range(LOWER) \cup {"é"}

IndexOf(ch, s) == CHOOSE i \in 1..Len(s) : s[i] = ch

ends_with(s, suffix) ==
    /\ Len(s) >= Len(suffix)
    /\ SubSeq(s, Len(s) - Len(suffix) + 1, Len(s)) = suffix

strip_suffix(s, suffix) == SubSeq(s, 1, Len(s) - Len(suffix))

contains(s, pat) ==
    \E i \in 0..(Len(s) - Len(pat)) : SubSeq(s, i + 1, i + Len(pat)) = pat

RECURSIVE FormatInt(_)
FormatInt(n) ==
    IF n < 10 THEN <<DIGITS[n + 1]>>
    ELSE FormatInt(n \div 10) \o <<DIGITS[(n % 10) + 1]>>

REVERSE_SUFFIX == <<"_","r","e","v","e","r","s","e">>
ROUTES_HEADER == <<"r","o","u","t","e","_","i","d",",","r","o","u","t","e","_","s","h","o","r","t","_","n","a","m","e",",","r","o","u","t","e","_","l","o","n","g","_","n","a","m","e",",","r","o","u","t","e","_","t","y","p","e">>

(***************************************************************************)
(* Time of day.                                                            *)
(***************************************************************************)
SecsPerDay == 86400

from_hms(h, m, s) == h * 3600 + m * 60 + s

\* NaiveTime + Duration::minutes(m): wraps around midnight, m may be negative.
AddMinutes(t, m) == (t + 60 * m) % SecsPerDay

hour(t) == t \div 3600
minute(t) == (t \div 60) % 60
second(t) == t % 60

\* i32 division by two truncates toward zero.
HalfFrequency(frequency) ==
    IF frequency >= 0 THEN frequency \div 2 ELSE -((-frequency) \div 2)

(***************************************************************************)
(* GridPosition.                                                           *)
(***************************************************************************)
GridPosition_new(pos) ==
    IF Len(pos) < 2 THEN None
    ELSE LET row == pos[1]
             column == pos[2]
         IN IF /\ is_uppercase(row) /\ is_lowercase(column)
               /\ row \in Range(UPPER)
               /\ column \in Range(LOWER)
            THEN Some([row |-> row, column |-> column])
            ELSE None

to_string(position) == <<position.row, position.column>>

DEFAULT_SPACING_KM == 1
DEFAULT_BASE_LAT == 40
DEFAULT_BASE_LON == -74

\* Rounding residual of the f64 sum base_lat + y_km * (1.0 / 111.32) for
\* base_lat = 40.0, spacing 1.0 and row index 0..25, in thousandths of a unit
\* in the last place (2^-47 degrees): f64 value minus exact value.
LAT_ROUNDING == <<0, 407, -185, 222, -370, 37, 445, -148, 260, -333, 75, 482, -110, 297, -295, 112, -480, -73, 335, -258, 149, -443, -36, 372, -221, 187>>

\* A coordinate pair is carried as the exact kilometre offsets from the base
\* point together with the f64 rounding residual of the latitude.
to_coordinates(position, spacing_km) ==
    LET row_idx == IndexOf(position.row, UPPER) - 1
        col_idx == IndexOf(position.column, LOWER) - 1
    IN [y_km |-> row_idx * spacing_km,
        x_km |-> col_idx * spacing_km,
        lat_rounding |-> LAT_ROUNDING[row_idx + 1]]

(***************************************************************************)
(* Travel time between two coordinates (generate_gtfs, lines 279-284).     *)
(* dist_km^2 = dy^2 + dx^2 / cos^2(40 deg), in millionths of km^2.         *)
(***************************************************************************)
INV_COS2_MICRO == 1704088
MICRO == 1000000
CAP_KM == 10
SPEED_KMH == 30

MinutesPerKm == 60 \div SPEED_KMH

\* ceil(dist_km / 30.0 * 60.0) in exact arithmetic: the least m with
\* m >= MinutesPerKm * dist_km.
CeilMinutes(dist2_micro) ==
    CHOOSE m \in 0..(CAP_KM * MinutesPerKm) :
        /\ m * m * MICRO >= MinutesPerKm * MinutesPerKm * dist2_micro
        /\ (m = 0 \/ (m - 1) * (m - 1) * MICRO
                        < MinutesPerKm * MinutesPerKm * dist2_micro)

\* TravelMinutes with the kilometre offsets taken for degrees and scaled by
\* 111.32 once more: every pair of distinct cells is beyond the 10 km cap.
TravelMinutes_degrees(c1, c2) ==
    IF c1.y_km = c2.y_km /\ c1.x_km = c2.x_km THEN 0
    ELSE CAP_KM * MinutesPerKm

TravelMinutes(c1, c2) ==
    LET dy == c2.y_km - c1.y_km
        dx == c2.x_km - c1.x_km
        dist2 == dy * dy * MICRO + INV_COS2_MICRO * dx * dx
    IN IF dist2 >= CAP_KM * CAP_KM * MICRO
       THEN CAP_KM * MinutesPerKm
       ELSE LET exact == CeilMinutes(dist2)
                \* With dx = 0 the exact duration is a whole number of
                \* minutes and the f64 rounding of the two latitudes decides
                \* whether ceil() lands on it or one above.
                north == IF dy > 0 THEN c2.lat_rounding - c1.lat_rounding
                                   ELSE c1.lat_rounding - c2.lat_rounding
            IN IF dx = 0 /\ dy # 0 /\ north > 0 THEN exact + 1 ELSE exact

(***************************************************************************)
(* Inputs of the registration calls.                                       *)
(***************************************************************************)
Aa == <<"A","a">>
Ba == <<"B","a">>
Ca == <<"C","a">>

\* add_stop(position, name)
StopCalls ==
    { [position |-> Aa, name |-> <<"P">>],
      [position |-> Ba, name |-> <<"Q">>],
      [position |-> Ca, name |-> <<"S">>],
      [position |-> <<"A","a","b">>, name |-> <<"T">>],
      [position |-> <<"a","A">>, name |-> <<"T">>],
      [position |-> <<"A">>, name |-> <<"T">>],
      [position |-> <<>>, name |-> <<"T">>],
      [position |-> <<"A","1">>, name |-> <<"T">>],
      [position |-> <<"É","a">>, name |-> <<"T">>] }

RouteCall(id, name, stop_ids, first_departure, frequency, generate_reverse) ==
    [id |-> id, name |-> name, stops |-> stop_ids,
     first_departure |-> first_departure, frequency |-> frequency,
     generate_reverse |-> generate_reverse]

\* add_route(id, name, stops, first_departure, frequency, generate_reverse)
RouteCalls ==
    { RouteCall(<<"R">>, <<"L">>, <<Aa, Ba>>, from_hms(23, 58, 0), 10, TRUE),
      RouteCall(<<"R">>, <<"L">>, <<Ba, Ca>>, from_hms(8, 0, 0), 30, FALSE),
      RouteCall(<<"R">> \o REVERSE_SUFFIX, <<"L">>, <<Aa, Ba, Ca>>,
                from_hms(8, 0, 0), 60, FALSE),
      RouteCall(<<"A","R">>, <<"M">>, <<Ca, Aa>>, from_hms(12, 0, 0), -3, TRUE),
      RouteCall(<<"e">>, <<"M">>, <<Aa>>, from_hms(8, 0, 0), 0, TRUE),
      RouteCall(<<"L">>, <<"M">>, <<>>, from_hms(23, 39, 30), 10, FALSE) }

(***************************************************************************)
(* TransitGrid state and the registration calls.                           *)
(***************************************************************************)
\* ret is what the latest call returned: Ok(()), or Err with one of the two
\* messages "Invalid grid position: .." and "Stop .. not found" (the
\* offending text is not kept).  A call that panics or never returns is
\* recorded as "Panic" or "Running".
Ok == "Ok"
ErrInvalidGridPosition == "Invalid grid position"
ErrStopNotFound == "Stop not found"

NoFeed == <<>>

\* TransitGrid::new(None)
Init ==
    /\ stops = <<>>
    /\ routes = <<>>
    /\ feed = NoFeed
    /\ ret = Ok

\* HashMap::insert: adds the key or replaces the value stored under it.
insert(map, key, value) ==
    [k \in DOMAIN map \cup {key} |-> IF k = key THEN value ELSE map[k]]

add_stop(c) ==
    LET grid_pos == GridPosition_new(c.position)
    IN IF grid_pos = None
       THEN /\ ret' = ErrInvalidGridPosition
            /\ feed' = NoFeed
            /\ UNCHANGED <<stops, routes>>
       ELSE LET stop_id == to_string(grid_pos[1])
                stop == [id |-> stop_id, name |-> c.name,
                         position |-> grid_pos[1]]
            IN /\ stops' = insert(stops, stop_id, stop)
               /\ ret' = Ok
               /\ feed' = NoFeed
               /\ UNCHANGED routes

\* FirstUnknown that returns after looking at one stop id only.
FirstUnknown_head_only(map, stop_ids, i) ==
    IF i > Len(stop_ids) THEN None
    ELSE IF stop_ids[i] \notin DOMAIN map THEN Some(stop_ids[i])
    ELSE None

\* The validation loop of add_route: the first stop id that is not a key of
\* the stops map, if any.
RECURSIVE FirstUnknown(_, _, _)
FirstUnknown(map, stop_ids, i) ==
    IF i > Len(stop_ids) THEN None
    ELSE IF stop_ids[i] \notin DOMAIN map THEN Some(stop_ids[i])
    ELSE FirstUnknown(map, stop_ids, i + 1)

RECURSIVE reverse(_)
reverse(s) == IF s = <<>> THEN <<>> ELSE Append(reverse(Tail(s)), Head(s))

forward_route(c) ==
    [id |-> c.id, name |-> c.name, stops |-> c.stops,
     schedule |-> <<c.first_departure>>, frequency |-> c.frequency]

reverse_route(c) ==
    [id |-> c.id \o REVERSE_SUFFIX, name |-> c.name,
     stops |-> reverse(c.stops),
     schedule |-> <<AddMinutes(c.first_departure, HalfFrequency(c.frequency))>>,
     frequency |-> c.frequency]

\* add_route that appends the forward route before it validates the stops.
add_route_push_first(c) ==
    /\ Len(routes) + (IF c.generate_reverse THEN 2 ELSE 1) <= MaxRoutes
    /\ LET unknown == FirstUnknown(stops, c.stops, 1)
           pushed == Append(routes, forward_route(c))
       IN IF unknown # None
          THEN /\ routes' = pushed
               /\ ret' = ErrStopNotFound
               /\ feed' = NoFeed
               /\ UNCHANGED stops
          ELSE /\ routes' = IF c.generate_reverse
                            THEN Append(pushed, reverse_route(c))
                            ELSE pushed
               /\ ret' = Ok
               /\ feed' = NoFeed
               /\ UNCHANGED stops

add_route(c) ==
    /\ Len(routes) + (IF c.generate_reverse THEN 2 ELSE 1) <= MaxRoutes
    /\ LET unknown == FirstUnknown(stops, c.stops, 1)
       IN IF unknown # None
          THEN /\ ret' = ErrStopNotFound
               /\ feed' = NoFeed
               /\ UNCHANGED <<stops, routes>>
          ELSE /\ routes' = IF c.generate_reverse
                            THEN routes \o <<forward_route(c), reverse_route(c)>>
                            ELSE Append(routes, forward_route(c))
               /\ ret' = Ok
               /\ feed' = NoFeed
               /\ UNCHANGED stops

(***************************************************************************)
(* generate_gtfs.  The tables are the function's local line buffers        *)
(* (stops, routes, trips, stop_times), observable when the call returns    *)
(* and written to the files of the same names.  A row of the routes table  *)
(* is its text; a row of the other tables is the record of its columns.    *)
(* The stops table is built by iterating a HashMap, whose order is         *)
(* unspecified: it is kept as the set of its rows.  calendar.txt and       *)
(* agency.txt are fixed text and are left out.  trip_counts keeps the      *)
(* final trip_index of every trip loop.                                    *)
(***************************************************************************)
max_trips == 300
end_time == from_hms(23, 59, 0)

COMMA == <<",">>
UNDERSCORE == <<"_">>
DIR == <<"_","d","i","r">>
ROUTE_TYPE_BUS == 3

stop_rows(map, spacing_km) ==
    { [stop_id |-> map[k].id, stop_name |-> map[k].name,
       coordinates |-> to_coordinates(map[k].position, spacing_km)]
      : k \in DOMAIN map }

parent_route_id(route) ==
    IF ends_with(route.id, REVERSE_SUFFIX)
    THEN strip_suffix(route.id, REVERSE_SUFFIX)
    ELSE route.id

direction_id(route) == IF ends_with(route.id, REVERSE_SUFFIX) THEN 1 ELSE 0

\* "Only add each unique route once": some line already in the buffer, the
\* header included, contains the text "{parent_route_id},".
already_listed(lines, parent) ==
    \E i \in 1..Len(lines) : contains(lines[i], parent \o COMMA)

route_line(route) ==
    parent_route_id(route) \o COMMA \o route.name \o COMMA \o <<>> \o COMMA
        \o FormatInt(ROUTE_TYPE_BUS)

RECURSIVE route_rows(_, _, _)
route_rows(all_routes, i, lines) ==
    IF i > Len(all_routes) THEN lines
    ELSE route_rows(all_routes, i + 1,
            IF already_listed(lines, parent_route_id(all_routes[i]))
            THEN lines
            ELSE Append(lines, route_line(all_routes[i])))

trip_id_of(route, trip_index) ==
    parent_route_id(route) \o UNDERSCORE \o FormatInt(trip_index) \o DIR
        \o FormatInt(direction_id(route))

\* The walk over one trip's stops (lines 245-287): one stop_times row per
\* stop, the clock advanced by the travel time to the next stop.  The rows
\* of the trip are collected and appended to the table together.
RECURSIVE stop_walk(_, _, _, _, _, _, _)
stop_walk(map, spacing_km, route, trip_id, i, current_time, rows) ==
    IF i > Len(route.stops) THEN rows
    ELSE LET stop_id == route.stops[i]
             time_str == <<hour(current_time), minute(current_time),
                           second(current_time)>>
             row == [trip_id |-> trip_id, arrival_time |-> time_str,
                     departure_time |-> time_str, stop_id |-> stop_id,
                     stop_sequence |-> i - 1]
             next_time ==
                 IF i + 1 <= Len(route.stops)
                 THEN AddMinutes(current_time,
                        TravelMinutes(
                          to_coordinates(map[stop_id].position, spacing_km),
                          to_coordinates(map[route.stops[i + 1]].position,
                                         spacing_km)))
                 ELSE current_time
         IN stop_walk(map, spacing_km, route, trip_id, i + 1, next_time,
                      Append(rows, row))

\* loop_condition with the cap compared by <= instead of <.
loop_condition_inclusive(departure_time, trip_index) ==
    departure_time < end_time /\ trip_index <= max_trips

\* The condition of the trip loop (line 229).
loop_condition(departure_time, trip_index) ==
    departure_time < end_time /\ trip_index < max_trips

\* One pass through the body of the trip loop (lines 230-291).
trip_loop_body(map, spacing_km, route, st) ==
    LET trip_id == trip_id_of(route, st.trip_index)
        trip == [route_id |-> parent_route_id(route), service_id |-> "WEEKDAY",
                 trip_id |-> trip_id, direction_id |-> direction_id(route)]
    IN [departure_time |-> AddMinutes(st.departure_time, route.frequency),
        trip_index |-> st.trip_index + 1,
        trips |-> Append(st.trips, trip),
        stop_times |-> st.stop_times
                       \o stop_walk(map, spacing_km, route, trip_id, 1,
                                    st.departure_time, <<>>)]

\* The trip loop of one first-departure entry (lines 229-292), run for at
\* most n passes: the first half of the passes, then the rest.  The loop
\* has left through its condition iff the condition is false of the result.
RECURSIVE trip_loop(_, _, _, _, _)
trip_loop(map, spacing_km, route, st, n) ==
    IF n = 0 \/ ~loop_condition(st.departure_time, st.trip_index) THEN st
    ELSE IF n = 1 THEN trip_loop_body(map, spacing_km, route, st)
    ELSE trip_loop(map, spacing_km, route,
                   trip_loop(map, spacing_km, route, st, n \div 2),
                   n - (n \div 2))

\* out.trip_counts: the value of trip_index when each trip loop ended, in
\* the order the loops ran.  out.running: some trip loop was still running
\* after LoopFuel passes.
RECURSIVE schedule_loop(_, _, _, _, _)
schedule_loop(map, spacing_km, route, j, out) ==
    IF j > Len(route.schedule) THEN out
    ELSE LET st == trip_loop(map, spacing_km, route,
                       [departure_time |-> route.schedule[j], trip_index |-> 0,
                        trips |-> out.trips, stop_times |-> out.stop_times],
                       LoopFuel)
         IN schedule_loop(map, spacing_km, route, j + 1,
               [trips |-> st.trips, stop_times |-> st.stop_times,
                trip_counts |-> Append(out.trip_counts, st.trip_index),
                running |-> out.running
                            \/ loop_condition(st.departure_time,
                                              st.trip_index)])

RECURSIVE trips_and_stop_times(_, _, _, _, _)
trips_and_stop_times(map, spacing_km, all_routes, i, out) ==
    IF i > Len(all_routes) THEN out
    ELSE trips_and_stop_times(map, spacing_km, all_routes, i + 1,
            schedule_loop(map, spacing_km, all_routes[i], 1, out))

\* Indexing the stops map with a missing key panics (lines 262-263); it is
\* reached for a route of two stops or more that gets at least one trip.
lookup_panics(map, all_routes) ==
    \E i \in 1..Len(all_routes) :
        /\ Len(all_routes[i].stops) >= 2
        /\ \E j \in 1..Len(all_routes[i].schedule) :
               loop_condition(all_routes[i].schedule[j], 0)
        /\ \E k \in 1..Len(all_routes[i].stops) :
               all_routes[i].stops[k] \notin DOMAIN map

generate_gtfs ==
    /\ IF lookup_panics(stops, routes)
       THEN /\ feed' = NoFeed
            /\ ret' = "Panic"
       ELSE LET out == trips_and_stop_times(stops, DEFAULT_SPACING_KM, routes,
                          1, [trips |-> <<>>, stop_times |-> <<>>,
                              trip_counts |-> <<>>, running |-> FALSE])
            IN IF out.running
               THEN /\ feed' = NoFeed
                    /\ ret' = "Running"
               ELSE /\ feed' =
                         Some([stops |-> stop_rows(stops, DEFAULT_SPACING_KM),
                               routes |-> route_rows(routes, 1,
                                                     <<ROUTES_HEADER>>),
                               trips |-> out.trips,
                               stop_times |-> out.stop_times,
                               trip_counts |-> out.trip_counts])
                    /\ ret' = Ok
    /\ UNCHANGED <<stops, routes>>

Next ==
    \/ \E c \in StopCalls : add_stop(c)
    \/ \E c \in RouteCalls : add_route(c)
    \/ generate_gtfs

Spec == Init /\ [][Next]_vars

(***************************************************************************)
(* Vocabulary of the properties.                                           *)
(***************************************************************************)
Generated == feed # NoFeed
TheFeed == feed[1]

ErrorReturns == {ErrInvalidGridPosition, ErrStopNotFound}

Min(a, b) == IF a < b THEN a ELSE b
Abs(a) == IF a < 0 THEN -a ELSE a

Reversed(s) == [i \in 1..Len(s) |-> s[Len(s) + 1 - i]]

\* The clock value of an arrival_time field, in seconds.
Secs(time_str) == time_str[1] * 3600 + time_str[2] * 60 + time_str[3]
Clock(t) == <<hour(t), minute(t), second(t)>>

\* Every route has one first departure, so the j-th trip loop is route j's.
TripCount(j) == TheFeed.trip_counts[j]

RECURSIVE TripBase(_)
TripBase(j) == IF j = 1 THEN 0 ELSE TripBase(j - 1) + TripCount(j - 1)

RECURSIVE VisitBase(_)
VisitBase(j) ==
    IF j = 1 THEN 0
    ELSE VisitBase(j - 1) + TripCount(j - 1) * Len(routes[j - 1].stops)

\* The t-th trip row of route j, and the time of its visit at stop_sequence 0.
TripRow(j, t) == TheFeed.trips[TripBase(j) + t]
TripStart(j, t) ==
    Secs(TheFeed.stop_times[VisitBase(j) + (t - 1) * Len(routes[j].stops) + 1]
             .arrival_time)

\* Pairs of consecutive visits of one trip: rows k and k+1 of stop_times.
Legs ==
    { k \in 1..(Len(TheFeed.stop_times) - 1) :
        /\ TheFeed.stop_times[k].trip_id = TheFeed.stop_times[k + 1].trip_id
        /\ TheFeed.stop_times[k + 1].stop_sequence
               = TheFeed.stop_times[k].stop_sequence + 1 }

LegFrom(k) == TheFeed.stop_times[k]
LegTo(k) == TheFeed.stop_times[k + 1]
LegSeconds(k) ==
    (Secs(LegTo(k).arrival_time) - Secs(LegFrom(k).arrival_time)) % SecsPerDay
CoordinatesOf(stop_id) ==
    to_coordinates(stops[stop_id].position, DEFAULT_SPACING_KM)

\* The feed's tables are consistent with the loop counters.
FeedShape ==
    Generated =>
        /\ Len(TheFeed.trip_counts) = Len(routes)
        /\ \A j \in 1..Len(routes) : Len(routes[j].schedule) = 1
        /\ Len(TheFeed.trips) = TripBase(Len(routes) + 1)
        /\ Len(TheFeed.stop_times) = VisitBase(Len(routes) + 1)

(***************************************************************************)
(* C1.  For every registered route with frequency F > 0 and first          *)
(* departure T, generate_gtfs emits exactly min(300, N) trips, N being the *)
(* number of k >= 0 with T + k*F minutes strictly before 23:59:00 of the   *)
(* same day.                                                               *)
(***************************************************************************)
BeforeCutoff(T, F) ==
    IF T >= end_time THEN 0 ELSE ((end_time - 1 - T) \div (60 * F)) + 1

C1_TripCountUntilCutoff ==
    Generated =>
        \A j \in 1..Len(routes) :
            routes[j].frequency > 0 =>
                TripCount(j) = Min(max_trips,
                                   BeforeCutoff(routes[j].schedule[1],
                                                routes[j].frequency))

(***************************************************************************)
(* C2.  A registration call that returns an error leaves stops and routes  *)
(* as they were: add_route with an unknown stop id at any position returns *)
(* an error and appends nothing, and so does add_stop with a rejected      *)
(* grid text.                                                              *)
(***************************************************************************)
HasUnknownStop(c) == \E i \in 1..Len(c.stops) : c.stops[i] \notin DOMAIN stops

C2_ErrorStep ==
    /\ \A c \in RouteCalls :
           (add_route(c) /\ HasUnknownStop(c)) => ret' = ErrStopNotFound
    /\ ret' \in ErrorReturns => (stops' = stops /\ routes' = routes)

\* C2: every step that returns an error leaves stops and routes unchanged,
\* and add_route with an unknown stop id at any position returns an error.
C2_ErrorLeavesNetworkUnchanged == [][C2_ErrorStep]_vars

\* A route call was rejected when the network already held stops.
C2_Witness ==
    /\ ret = ErrStopNotFound
    /\ DOMAIN stops # {}
    /\ Aa \in DOMAIN stops /\ Ba \notin DOMAIN stops

(***************************************************************************)
(* C3.  No two trip rows of one generate_gtfs call carry the same trip_id. *)
(***************************************************************************)
C3_TripIdsUnique ==
    Generated =>
        Cardinality({ TheFeed.trips[k].trip_id : k \in 1..Len(TheFeed.trips) })
            = Len(TheFeed.trips)

(***************************************************************************)
(* C4.  Within every trip the visit at stop_sequence 0 has the trip's      *)
(* departure time and the time at stop_sequence i+1 is the time at i plus  *)
(* the travel duration between the two stops, so the times never decrease  *)
(* along the trip (no wrap at 24:00 into an earlier clock value).          *)
(***************************************************************************)
C4_TimesAdvanceAlongTrip ==
    Generated =>
        /\ \A j \in 1..Len(routes) :
               (TripCount(j) > 0 /\ Len(routes[j].stops) > 0) =>
                   TripStart(j, 1) = routes[j].schedule[1]
        /\ \A k \in Legs :
               /\ Secs(LegTo(k).arrival_time)
                      = Secs(LegFrom(k).arrival_time)
                        + 60 * TravelMinutes(CoordinatesOf(LegFrom(k).stop_id),
                                             CoordinatesOf(LegTo(k).stop_id))
               /\ Secs(LegTo(k).arrival_time) >= Secs(LegFrom(k).arrival_time)

(***************************************************************************)
(* C5.  The routes table has exactly one data row for each distinct parent *)
(* route id of the registered routes: none twice, none left out.           *)
(***************************************************************************)
IdField(line) ==
    LET comma == CHOOSE i \in 1..Len(line) :
                    line[i] = "," /\ \A h \in 1..(i - 1) : line[h] # ","
    IN SubSeq(line, 1, comma - 1)

C5_OneRowPerParentRoute ==
    Generated =>
        LET rows == Tail(TheFeed.routes)
            parents == { parent_route_id(routes[j]) : j \in 1..Len(routes) }
        IN /\ { IdField(rows[k]) : k \in 1..Len(rows) } = parents
           /\ Len(rows) = Cardinality(parents)

(***************************************************************************)
(* C6.  add_route with generate_reverse = true appends the forward route   *)
(* and then a route with the stops reversed, the first departure           *)
(* floor(F/2) minutes after the forward one and the id followed by         *)
(* "_reverse"; in the feed every trip of the reverse route has             *)
(* direction_id 1 and every trip of a forward route has direction_id 0.    *)
(***************************************************************************)
Floor2(n) == n \div 2

C6_ReverseStep ==
    \A c \in RouteCalls :
        (add_route(c) /\ ret' = Ok /\ c.generate_reverse) =>
            LET n == Len(routes) IN
            /\ Len(routes') = n + 2
            /\ routes'[n + 1].id = c.id
            /\ routes'[n + 1].stops = c.stops
            /\ routes'[n + 1].schedule = <<c.first_departure>>
            /\ routes'[n + 2].id = c.id \o REVERSE_SUFFIX
            /\ routes'[n + 2].stops = Reversed(c.stops)
            /\ routes'[n + 2].schedule
                   = <<(c.first_departure + 60 * Floor2(c.frequency))
                          % SecsPerDay>>

\* Route j was appended as the reverse of route j-1.
IsReverseVariant(j) ==
    /\ j > 1
    /\ routes[j].id = routes[j - 1].id \o REVERSE_SUFFIX
    /\ routes[j].stops = Reversed(routes[j - 1].stops)
    /\ routes[j].name = routes[j - 1].name
    /\ routes[j].frequency = routes[j - 1].frequency

C6_Directions ==
    Generated =>
        \A j \in 1..Len(routes) : \A t \in 1..TripCount(j) :
            TripRow(j, t).direction_id = IF IsReverseVariant(j) THEN 1 ELSE 0

\* C6: the shape of the appended reverse route, and the direction ids of the
\* trips of reverse and forward routes.
C6_ReverseRouteAndDirections == [][C6_ReverseStep]_vars /\ []C6_Directions

(***************************************************************************)
(* C7.  GridPosition parsing succeeds only for texts of exactly two        *)
(* characters, an uppercase Latin letter then a lowercase Latin letter;    *)
(* add_stop rejects every other text and registers nothing for it.         *)
(***************************************************************************)
WellFormed(pos) ==
    /\ Len(pos) = 2
    /\ pos[1] \in Range(UPPER)
    /\ pos[2] \in Range(LOWER)

C7_ParseStep ==
    \A c \in StopCalls :
        add_stop(c) =>
            /\ (ret' = Ok) <=> WellFormed(c.position)
            /\ ~WellFormed(c.position) => stops' = stops

\* C7: add_stop returns Ok exactly for the well-formed two-letter texts and
\* registers nothing for any other text.
C7_OnlyTwoLetterTextsParse == [][C7_ParseStep]_vars

(***************************************************************************)
(* C8.  The travel time used between two consecutive stops of a trip that  *)
(* are one grid cell apart in the row direction (spacing 1.0 km, base      *)
(* latitude 40.0) is 20 minutes.  Amended: it is 2 or 3 minutes.           *)
(***************************************************************************)
OneRowApart(id1, id2) ==
    /\ Abs(IndexOf(id1[1], UPPER) - IndexOf(id2[1], UPPER)) = 1
    /\ id1[2] = id2[2]

RowLegs == { k \in Legs : OneRowApart(LegFrom(k).stop_id, LegTo(k).stop_id) }

\* C8 as stated: every leg between cells one row apart takes 20 minutes.
C8_OneCellTakesTwentyMinutes ==
    Generated => \A k \in RowLegs : LegSeconds(k) = 20 * 60

\* C8 amended: every leg between cells one row apart takes 2 or 3 minutes.
C8_OneCellTakesTwoOrThreeMinutes ==
    Generated => \A k \in RowLegs : LegSeconds(k) \in {2 * 60, 3 * 60}

\* A feed with a one-cell leg of 2 minutes and one of 3 minutes.
C8_Witness ==
    /\ Generated
    /\ \E k \in RowLegs : LegSeconds(k) = 2 * 60
    /\ \E k \in RowLegs : LegSeconds(k) = 3 * 60

(***************************************************************************)
(* C9.  For every frequency, zero and negative included, add_route reports *)
(* no error for the frequency and every trip loop of generate_gtfs ends    *)
(* after at most 300 trips; with a non-positive frequency the trips all    *)
(* start at the same timestamp.  Amended: they all start at the same       *)
(* timestamp with a zero frequency; with a negative frequency F each trip  *)
(* starts |F| minutes before the previous one, wrapping at midnight.       *)
(***************************************************************************)
C9_FrequencyAccepted ==
    \A c \in RouteCalls :
        (add_route(c) /\ ~HasUnknownStop(c)) => ret' = Ok

C9_LoopsEnd ==
    /\ ret # "Running"
    /\ Generated => \A j \in 1..Len(routes) : TripCount(j) <= max_trips

\* The routes whose trips have a visible start: at least one stop.
Started(j) == Len(routes[j].stops) > 0

C9_SameStart(j) ==
    \A t \in 1..TripCount(j) : TripStart(j, t) = TripStart(j, 1)

C9_NonPositiveStartsTogether ==
    /\ C9_LoopsEnd
    /\ Generated =>
           \A j \in 1..Len(routes) :
               (routes[j].frequency <= 0 /\ Started(j)) => C9_SameStart(j)

\* C9 as stated: any frequency is accepted, every trip loop ends within 300
\* trips, and the trips of a route with frequency <= 0 start together.
C9_NonPositiveFrequencyClaim ==
    [][C9_FrequencyAccepted]_vars /\ []C9_NonPositiveStartsTogether

C9_ZeroStartsTogether ==
    /\ C9_LoopsEnd
    /\ Generated =>
           \A j \in 1..Len(routes) :
               /\ (routes[j].frequency = 0 /\ Started(j)) => C9_SameStart(j)
               /\ (routes[j].frequency < 0 /\ Started(j)) =>
                      \A t \in 1..(TripCount(j) - 1) :
                          TripStart(j, t + 1)
                              = (TripStart(j, t) + 60 * routes[j].frequency)
                                    % SecsPerDay

\* C9 amended: any frequency is accepted, every trip loop ends within 300
\* trips, the trips of a zero-frequency route start together and those of a
\* negative-frequency route start |F| minutes before one another.
C9_ZeroFrequencyClaim ==
    [][C9_FrequencyAccepted]_vars /\ []C9_ZeroStartsTogether

\* A feed with a zero-frequency route that ran into the cap.
C9_Witness ==
    /\ Generated
    /\ \E j \in 1..Len(routes) :
           /\ routes[j].frequency = 0
           /\ Started(j)
           /\ TripCount(j) = max_trips

(***************************************************************************)
(* C10.  Referential integrity: every stop id of every registered route is *)
(* a key of the stops map, every key is the id of the stop stored under    *)
(* it, generate_gtfs never looks up a missing stop, and every stop_id of   *)
(* stop_times is the id of a row of the stops table.                       *)
(***************************************************************************)
C10_ReferentialIntegrity ==
    /\ \A j \in 1..Len(routes) : \A i \in 1..Len(routes[j].stops) :
           routes[j].stops[i] \in DOMAIN stops
    /\ \A k \in DOMAIN stops : stops[k].id = k
    /\ ret # "Panic"
    /\ Generated =>
           \A k \in 1..Len(TheFeed.stop_times) :
               TheFeed.stop_times[k].stop_id
                   \in { row.stop_id : row \in TheFeed.stops }

\* A feed with stop visits, generated after the cell Aa was registered twice.
C10_Witness ==
    /\ Generated
    /\ Len(TheFeed.stop_times) > 0
    /\ Aa \in DOMAIN stops
    /\ stops[Aa].name = <<"T">>
    /\ \E j \in 1..Len(routes) : \E i \in 1..Len(routes[j].stops) :
           routes[j].stops[i] = Aa

====
